---- MODULE Spec2Model ----
(***************************************************************************)
(* A model of the OG image generator (og_image_generator.js).  The file    *)
(* holds two copies of the canvas based server: the language aware one     *)
(* (lines 1-321) and the one without a language field (lines 323-558).     *)
(* Strings are sequences of one-character strings.                         *)
(***************************************************************************)
EXTENDS Integers, Sequences, FiniteSets, TLC

VARIABLES
    variant,      \* which copy of the server runs: "language" or "plain"
    globalFontCache, \* cached family -> its list of font files
    registered,   \* fonts registered with the canvas: {[family, weight, file]}
    req,          \* request slot -> request body (NoBody before it arrives)
    pc,           \* request slot -> position of its handler
    tasks,        \* request slot -> its per-URL download tasks (fontPromises)
    loadState,    \* request slot -> state of its loadGoogleFont promise
    responses,    \* request slot -> sequence of responses sent
    outcome,      \* request slot -> how loadImage and the drawing ended
    plan,         \* request slot -> <<the drawing plan>> once the image is drawn
    hist,         \* request slot -> history record (fetch counters, ...)
    audit,        \* whether hist also records the HTTP status of the responses
    wIn,          \* wrapper check: the input [text, maxWidth]
    wOut,         \* wrapper check: the lines returned
    lIn,          \* layout check: the generateImage arguments but textDir
    lOut          \* layout check: textDir -> the drawing plan computed

serverVars == <<variant, globalFontCache, registered, req, pc,
                tasks, loadState, responses, plan, outcome, hist, audit>>
wrapVars == <<wIn, wOut>>
layoutVars == <<lIn, lOut>>
vars == <<serverVars, wrapVars, layoutVars>>

Variants == {"language", "plain"}

(***************************************************************************)
(* Text: measuring, splitting, trimming, joining, upper-casing.            *)
(***************************************************************************)

\* Advance width of one glyph at a font size: what ctx.measureText adds up.
GlyphWidth(c, px) ==
    IF c \in {" ", "i", "I", "Idot"} THEN px \div 3
    ELSE IF c = "W" THEN px
    ELSE (2 * px) \div 3

RECURSIVE measureText(_, _)
measureText(px, s) ==
    IF s = <<>> THEN 0
    ELSE GlyphWidth(Head(s), px) + measureText(px, Tail(s))

HasSpace(s) == \E k \in 1..Len(s) : s[k] = " "
FirstSpace(s) == CHOOSE k \in 1..Len(s) : s[k] = " " /\ \A j \in 1..(k-1) : s[j] # " "

\* String.prototype.split(' '): cuts at every single space, keeps empty pieces.
RECURSIVE Split(_)
Split(s) ==
    IF ~HasSpace(s) THEN <<s>>
    ELSE <<SubSeq(s, 1, FirstSpace(s) - 1)>> \o Split(SubSeq(s, FirstSpace(s) + 1, Len(s)))

\* String.prototype.trim()
RECURSIVE TrimLeft(_)
TrimLeft(s) == IF s # <<>> /\ Head(s) = " " THEN TrimLeft(Tail(s)) ELSE s
RECURSIVE TrimRight(_)
TrimRight(s) ==
    IF s # <<>> /\ s[Len(s)] = " " THEN TrimRight(SubSeq(s, 1, Len(s) - 1)) ELSE s
Trim(s) == TrimRight(TrimLeft(s))

\* The loop of wrapTextAndReturnLines (language aware copy), i is 1-based.
RECURSIVE WrapLoop(_, _, _, _, _, _)
WrapLoop(px, words, i, lines, currentLine, maxWidth) ==
    IF i > Len(words) THEN Append(lines, currentLine)
    ELSE LET testLine == currentLine
                         \o (IF currentLine # <<>> THEN <<" ">> ELSE <<>>)
                         \o words[i]
             testWidth == measureText(px, testLine)
         IN  IF testWidth > maxWidth /\ i > 1
             THEN WrapLoop(px, words, i + 1, Append(lines, currentLine), words[i], maxWidth)
             ELSE WrapLoop(px, words, i + 1, lines, testLine, maxWidth)

wrapTextAndReturnLines(px, text, maxWidth) ==
    WrapLoop(px, Split(text), 1, <<>>, <<>>, maxWidth)

\* The loop of wrapText in the copy without a language field.
RECURSIVE WrapTextLoop(_, _, _, _, _, _)
WrapTextLoop(px, words, n, lines, line, maxWidth) ==
    IF n > Len(words) THEN Append(lines, Trim(line))
    ELSE LET testLine == line \o words[n] \o <<" ">>
             testWidth == measureText(px, testLine)
         IN  IF testWidth > maxWidth /\ n > 1
             THEN WrapTextLoop(px, words, n + 1, Append(lines, Trim(line)),
                               words[n] \o <<" ">>, maxWidth)
             ELSE WrapTextLoop(px, words, n + 1, lines, testLine, maxWidth)

wrapTextPlain(px, text, maxWidth) ==
    WrapTextLoop(px, Split(text), 1, <<>>, <<>>, maxWidth)

\* The lines the wrapper of a copy produces.
WrapLines(v, px, text, maxWidth) ==
    IF v = "language" THEN wrapTextAndReturnLines(px, text, maxWidth)
    ELSE wrapTextPlain(px, text, maxWidth)

\* Array.prototype.join(' ')
RECURSIVE Join(_)
Join(lines) ==
    IF lines = <<>> THEN <<>>
    ELSE IF Len(lines) = 1 THEN lines[1]
    ELSE lines[1] \o <<" ">> \o Join(Tail(lines))

\* String.prototype.toLocaleUpperCase(locale), one character: the dotted
\* capital I of the Turkic locales is written "Idot".
UpperChar(c, locale) ==
    IF c = "a" THEN "A"
    ELSE IF c = "i" THEN (IF locale = "tr-TR" THEN "Idot" ELSE "I")
    ELSE c

toLocaleUpperCase(s, locale) == [k \in 1..Len(s) |-> UpperChar(s[k], locale)]

\* String.prototype.toUpperCase(): locale independent.
toUpperCase(s) == [k \in 1..Len(s) |-> UpperChar(s[k], "und")]

(***************************************************************************)
(* generateImage: the drawing plan.                                        *)
(***************************************************************************)

width == 1200
height == 628

Max(a, b) == IF a > b THEN a ELSE b

\* The language keys the switches know.
Languages == {"Urdu", "Farsi", "French", "Somali", "Turkish", "English", "Russian",
              "Arabic", "Sorani", "Pashto"}

\* switch (language) { ... titleBarWidth = ... }
titleBarWidthOf(language) ==
    IF language = "Urdu" THEN 310
    ELSE IF language \in {"Farsi", "French", "Somali", "Turkish", "English", "Russian"} THEN 400
    ELSE IF language \in {"Arabic", "Sorani", "Pashto"} THEN 300
    ELSE 300

\* switch (language) { ... locale = ... }
localeOf(language) ==
    IF language = "Turkish" THEN "tr-TR"
    ELSE IF language = "Urdu" THEN "ur-PK"
    ELSE IF language = "Farsi" THEN "fa-IR"
    ELSE IF language = "Somali" THEN "so-SO"
    ELSE IF language = "English" THEN "en-US"
    ELSE IF language = "Russian" THEN "ru-RU"
    ELSE IF language = "Arabic" THEN "ar-SA"
    ELSE IF language = "Sorani" THEN "ckb-IQ"
    ELSE IF language = "Pashto" THEN "ps-AF"
    ELSE IF language = "French" THEN "fr-FR"
    ELSE "en-US"

\* const lineHeight = fontFamily === 'Noto Nastaliq Urdu' ? 70 : isRTL ? 50 : 35
lineHeightOf(fontFamily, isRTL) ==
    IF fontFamily = "Noto Nastaliq Urdu" THEN 70 ELSE IF isRTL THEN 50 ELSE 35

\* Horizontal anchors, the same in both copies.
iconXOfUnmirrored(isRTL) == IF isRTL THEN 220 ELSE width - 220
iconXOf(isRTL) == IF isRTL THEN 40 ELSE width - 220
titleXOf(isRTL) == IF isRTL THEN width - 80 ELSE 80
titleBarXOf(isRTL) == IF isRTL THEN width - 40 ELSE 40
textAlignOf(isRTL) == IF isRTL THEN "right" ELSE "left"

\* Height of the white bar: from the wrapped line count in the language aware
\* copy, fixed by family in the other.
titleBarHeightFixed(v, fontFamily, lineCount, lineHeight) ==
    IF fontFamily = "Noto Nastaliq Urdu" THEN 180 ELSE 140
titleBarHeightOf(v, fontFamily, lineCount, lineHeight) ==
    IF v = "language" THEN Max(lineCount * lineHeight + 40, 140)
    ELSE IF fontFamily = "Noto Nastaliq Urdu" THEN 180 ELSE 140

\* The banner text as drawn: upper-cased per locale, or toUpperCase().
BannerText(v, titleBar, language) ==
    IF v = "language" THEN toLocaleUpperCase(titleBar, localeOf(language))
    ELSE toUpperCase(titleBar)

\* Max banner line width: by language, or the fixed 400.
BannerWidth(v, language) == IF v = "language" THEN titleBarWidthOf(language) ELSE 400

\* One call on the canvas context: ctx.fillRect, ctx.drawImage or ctx.fillText,
\* with what it draws, the text line it draws (0-based) and where.
DrawCall(op, what, line, x, y) ==
    [op |-> op, what |-> what, line |-> line, x |-> x, y |-> y]

\* lines.forEach((line, index) => ctx.fillText(line, x, y + index * lineHeight))
FillTextCalls(what, lines, x, y, lineHeight) ==
    [k \in 1..Len(lines) |-> DrawCall("fillText", what, k - 1, x, y + (k - 1) * lineHeight)]

\* Everything generateImage draws, as positions (b is the request body), and
\* the calls on the context in the order the code makes them.
generateImagePlan(v, b) ==
    LET isRTL == b.textDir = "RTL"
        lineHeight == lineHeightOf(b.fontFamily, isRTL)
        titleBarWidth == BannerWidth(v, b.language)
        wrappedText == WrapLines(v, 30, BannerText(v, b.titleBar, b.language), titleBarWidth)
        titleBarHeight == titleBarHeightOf(v, b.fontFamily, Len(wrappedText), lineHeight)
        titleBarY == height - titleBarHeight + 20
    IN  [ background |-> [x |-> 0, y |-> 0, w |-> width, h |-> height, fill |-> b.bgColor],
          icon |-> [x |-> iconXOf(isRTL), y |-> 120, w |-> 180, h |-> 180],
          title |-> [x |-> titleXOf(isRTL), y |-> 120, maxWidth |-> width - 480,
                     align |-> textAlignOf(isRTL), lineHeight |-> 70,
                     lines |-> WrapLines(v, 60, b.titleText, width - 480)],
          bar |-> [x |-> 0, y |-> height - titleBarHeight, w |-> width,
                   h |-> titleBarHeight],
          banner |-> [x |-> titleBarXOf(isRTL), y |-> titleBarY,
                      align |-> textAlignOf(isRTL), lineHeight |-> lineHeight,
                      maxWidth |-> titleBarWidth,
                      locale |-> IF v = "language" THEN localeOf(b.language) ELSE "und",
                      lines |-> wrappedText],
          textBaseline |-> "top",
          calls |-> <<DrawCall("fillRect", "background", 0, 0, 0),
                      DrawCall("drawImage", "icon", 0, iconXOf(isRTL), 120)>>
                    \o FillTextCalls("title", WrapLines(v, 60, b.titleText, width - 480),
                                     titleXOf(isRTL), 120, 70)
                    \o <<DrawCall("fillRect", "bar", 0, 0, height - titleBarHeight)>>
                    \o FillTextCalls("banner", wrappedText, titleBarXOf(isRTL),
                                     titleBarY, lineHeight) ]

(***************************************************************************)
(* The server: request bodies, validation, the font cache, the handler.    *)
(***************************************************************************)

Reqs == {"r1", "r2"}

\* Most font-source declarations a font-description response holds here.
MaxUrls == 2

Fonts == {"Roboto", "Noto Nastaliq Urdu"}
Fields == {"titleBar", "titleText", "bgColor", "iconUrl", "fontFamily", "textDir", "language"}

\* The body with every field missing.
EmptyBody == [titleBar |-> <<>>, titleText |-> <<>>, bgColor |-> <<>>,
              iconUrl |-> "", fontFamily |-> "", textDir |-> "", language |-> ""]

HexDigits == {"0", "1", "2", "3", "4", "5", "6", "7", "8", "9",
              "A", "B", "C", "D", "E", "F", "a", "b", "c", "d", "e", "f"}

\* /^#[0-9A-F]{6}$/i.test(bgColor)
IsHexColor(c) ==
    /\ Len(c) = 7
    /\ c[1] = "#"
    /\ \A k \in 2..7 : c[k] \in HexDigits

\* !field: a body field is falsy when it is missing or the empty string; the
\* code never tells the two apart, and both are written as the empty value.
Falsy(b, f) == b[f] = EmptyBody[f]

RequiredFields(v) ==
    IF v = "language"
    THEN {"titleBar", "titleText", "bgColor", "iconUrl", "fontFamily", "language"}
    ELSE {"titleBar", "titleText", "bgColor", "iconUrl", "fontFamily"}

\* The handler's input validation, in the order of the code: the error it
\* answers with, or "" when the body passes.
ValidationErrorNoColor(v, b) ==
    IF \E f \in RequiredFields(v) : Falsy(b, f) THEN "Missing required parameters"
    ELSE IF ~Falsy(b, "textDir") /\ b.textDir \notin {"LTR", "RTL"} THEN "Invalid text direction"
    ELSE ""

ValidationError(v, b) ==
    IF \E f \in RequiredFields(v) : Falsy(b, f) THEN "Missing required parameters"
    ELSE IF ~IsHexColor(b.bgColor) THEN "Invalid background color format"
    ELSE IF ~Falsy(b, "textDir") /\ b.textDir \notin {"LTR", "RTL"} THEN "Invalid text direction"
    ELSE ""

\* res.status(400).json({ error })
BadRequest(msg) == [status |-> 400, type |-> "application/json", error |-> msg]

\* The catch block: res.status(500).json({ error: 'Error generating image', ... })
RenderFailureOk == [status |-> 200, type |-> "application/json", error |-> "Error generating image"]
RenderFailure == [status |-> 500, type |-> "application/json", error |-> "Error generating image"]

\* res.setHeader('Content-Type', 'image/png'); res.send(pngBuffer)
PngResponse == [status |-> 200, type |-> "image/png", error |-> ""]

\* globalFontCache.has(font)
CacheHasNever(cache, font) == FALSE
CacheHas(cache, font) == font \in DOMAIN cache

\* path.join(os.tmpdir(), `${font}-${index}.ttf`)
tempFile(font, index) == <<font, index>>

\* weight: index === 0 ? '400' : '700'
weightOf(index) == IF index = 0 THEN 400 ELSE 700

\* A download task (one element of fontPromises), by its position: awaiting
\* fetch(url), awaiting fs.writeFile, fulfilled, rejected.
FetchTask == [st |-> "fetch"]
WriteTask == [st |-> "write"]
FailedTask == [st |-> "failed"]
DoneTask == [st |-> "done"]
NoTasks == [i \in {} |-> FetchTask]

\* Promise.all(fontPromises) fulfils when every promise has.
AllFulfilled(ts) == \A i \in DOMAIN ts : ts[i].st = "done"

\* The cache after a download task of `font` finished registering: the entry
\* is set once, after Promise.all, with one file per URL in order.
CacheAfterEager(cache, font, ts) ==
    IF \E i \in DOMAIN ts : ts[i].st = "done"
    THEN [f \in DOMAIN cache \cup {font} |->
            IF f = font THEN [k \in 1..Cardinality(DOMAIN ts) |-> tempFile(font, k - 1)]
            ELSE cache[f]]
    ELSE cache
CacheAfter(cache, font, ts) ==
    IF AllFulfilled(ts)
    THEN [f \in DOMAIN cache \cup {font} |->
            IF f = font THEN [k \in 1..Cardinality(DOMAIN ts) |-> tempFile(font, k - 1)]
            ELSE cache[f]]
    ELSE cache

NoHist == [cssFetches |-> 0, fontFetches |-> 0, iconLoads |-> 0, cacheWrites |-> 0,
           after |-> {}, nonOk |-> FALSE, wroteNonOk |-> FALSE]

\* Texts and colours the requests are drawn from.
Word(c, n) == [k \in 1..n |-> c]
SomeBanner == Word("a", 3) \o <<" ">> \o Word("i", 2)
SomeTitle == Word("a", 2) \o <<" ">> \o Word("W", 2)
GoodColor == <<"#", "1", "a", "F", "0", "3", "0">>
Colors == { GoodColor,
            <<"b", "l", "u", "e">>,
            <<"#", "1", "a", "F", "0", "3">>,
            <<"#", "1", "a", "F", "0", "3", "0", "0">>,
            <<"#", "1", "a", "G", "0", "3", "0">>,
            <<"1", "a", "F", "0", "3", "0", "#">> }

\* A complete well-formed body.
BaseBody == [titleBar |-> SomeBanner, titleText |-> SomeTitle, bgColor |-> GoodColor,
             iconUrl |-> "https://icon", fontFamily |-> "Roboto", textDir |-> "RTL",
             language |-> "English"]

Bodies ==
    { b \in [ titleBar : {<<>>, SomeBanner},
              titleText : {<<>>, SomeTitle},
              bgColor : {<<>>} \cup Colors,
              iconUrl : {"", "https://icon"},
              fontFamily : {""} \cup Fonts,
              textDir : {"RTL", "DIAGONAL"},
              language : {"", "English"} ] :
        \* the body differs from BaseBody in at most one field
        Cardinality({ f \in Fields : b[f] # BaseBody[f] }) <= 1 }

\* What the network and the file system may answer.
CssOutcomes == {[err |-> TRUE, ok |-> FALSE, n |-> 0]}
               \cup [err : {FALSE}, ok : BOOLEAN, n : 0..MaxUrls]
FontOutcomes == {[err |-> TRUE, ok |-> FALSE]} \cup [err : {FALSE}, ok : BOOLEAN]

\* The server right after start-up: nothing cached, registered or written.
ServerStart ==
    /\ globalFontCache = [f \in {} |-> <<>>]
    /\ registered = {}
    /\ req = [r \in Reqs |-> EmptyBody]
    /\ pc = [r \in Reqs |-> "idle"]
    /\ tasks = [r \in Reqs |-> NoTasks]
    /\ loadState = [r \in Reqs |-> "none"]
    /\ responses = [r \in Reqs |-> <<>>]
    /\ plan = [r \in Reqs |-> <<>>]
    /\ outcome = [r \in Reqs |-> "none"]
    /\ hist = [r \in Reqs |-> NoHist]

\* The requests whose loadGoogleFont(font) has completed successfully.
Succeeded(font) ==
    { q \in Reqs : req[q].fontFamily = font /\ loadState[q] \in {"fulfilled", "hit"} }

\* The catch block of the handler answers, once, if the handler is still
\* awaiting (a rejection after Promise.all has settled is swallowed).
Catch(r) ==
    /\ responses' = [responses EXCEPT ![r] = Append(@, RenderFailure)]
    /\ pc' = [pc EXCEPT ![r] = "done"]

\* app.post('/generate-og') up to its first suspension: validation, then
\* generateImage -> loadGoogleFont up to the cache check or the CSS fetch.
Receive(r, b) ==
    /\ pc[r] = "idle"
    /\ req' = [req EXCEPT ![r] = b]
    /\ IF ValidationError(variant, b) # ""
       THEN /\ responses' = [responses EXCEPT ![r] =
                                Append(@, BadRequest(ValidationError(variant, b)))]
            /\ pc' = [pc EXCEPT ![r] = "done"]
            /\ UNCHANGED <<loadState, hist>>
       ELSE IF CacheHas(globalFontCache, b.fontFamily)
       THEN \* cache hit: on to createCanvas, fillRect and loadImage(iconUrl)
            /\ loadState' = [loadState EXCEPT ![r] = "hit"]
            /\ pc' = [pc EXCEPT ![r] = "icon"]
            /\ hist' = [hist EXCEPT ![r].after = Succeeded(b.fontFamily),
                                    ![r].iconLoads = @ + 1]
            /\ UNCHANGED responses
       ELSE \* cache miss: fetch(API)
            /\ loadState' = [loadState EXCEPT ![r] = "css"]
            /\ pc' = [pc EXCEPT ![r] = "font"]
            /\ hist' = [hist EXCEPT ![r].after = Succeeded(b.fontFamily),
                                    ![r].cssFetches = @ + 1]
            /\ UNCHANGED responses
    /\ UNCHANGED <<variant, globalFontCache, registered, tasks, plan, outcome, audit>>

\* The font-description fetch settles: css.match(...), then one fetch per URL.
CssResponse(r, out) ==
    /\ loadState[r] = "css"
    /\ IF out.err \/ out.n = 0
       THEN \* fetch rejected, or fontUrls is null: throw
            /\ loadState' = [loadState EXCEPT ![r] = "rejected"]
            /\ Catch(r)
            /\ hist' = [hist EXCEPT ![r].nonOk = @ \/ (audit /\ ~out.err /\ ~out.ok)]
            /\ UNCHANGED tasks
       ELSE /\ tasks' = [tasks EXCEPT ![r] = [i \in 0..(out.n - 1) |-> FetchTask]]
            /\ loadState' = [loadState EXCEPT ![r] = "fonts"]
            /\ hist' = [hist EXCEPT ![r].fontFetches = @ + out.n,
                                    ![r].nonOk = @ \/ (audit /\ ~out.ok)]
            /\ UNCHANGED <<pc, responses>>
    /\ UNCHANGED <<variant, globalFontCache, registered, req, plan, outcome, audit>>

\* A download task rejects: Promise.all rejects on the first one, and the
\* handler's catch answers; the other tasks keep running.
TaskRejects(r) ==
    IF loadState[r] = "fonts"
    THEN /\ loadState' = [loadState EXCEPT ![r] = "rejected"]
         /\ Catch(r)
    ELSE UNCHANGED <<loadState, pc, responses>>

Writers(path) == { w \in Reqs \X (0..(MaxUrls - 1)) :
                     /\ w[2] \in DOMAIN tasks[w[1]]
                     /\ tasks[w[1]][w[2]].st = "write"
                     /\ tempFile(req[w[1]].fontFamily, w[2]) = path }

\* fetch(url) settles and the body is read: fs.writeFile(tempFile, buffer)
\* starts, whatever the status of the response.
FontResponse(r, i, out) ==
    /\ i \in DOMAIN tasks[r]
    /\ tasks[r][i].st = "fetch"
    /\ IF out.err
       THEN /\ tasks' = [tasks EXCEPT ![r][i] = FailedTask]
            /\ TaskRejects(r)
            /\ UNCHANGED hist
       ELSE /\ tasks' = [tasks EXCEPT ![r][i] = WriteTask]
            /\ hist' = [hist EXCEPT ![r].nonOk = @ \/ (audit /\ ~out.ok),
                                    ![r].wroteNonOk = @ \/ (audit /\ ~out.ok)]
            /\ UNCHANGED <<loadState, pc, responses>>
    /\ UNCHANGED <<variant, globalFontCache, registered, req, plan, outcome, audit>>

\* Another write of the same path is going on while task <<r, i>> writes.
Overlapped(r, i) == Writers(tempFile(req[r].fontFamily, i)) # {<<r, i>>}

\* How fs.writeFile may settle for a task: an I/O error; the bytes of the
\* response on disk, which nothing has looked at so far and registerFont finds
\* to be a font or junk; or, when another write of the same path overlapped this
\* one, a torn file that registerFont may or may not parse.
WriteOutcomes(r, i) ==
    {"EIO", "font", "junk"}
    \cup (IF Overlapped(r, i) THEN {"torn-parsed", "torn-rejected"} ELSE {})

\* fs.writeFile settles; registerFont(tempFile, ...) follows in the same turn
\* (it throws on a file it cannot parse), and with the last task Promise.all
\* fulfils: the cache entry is set and generateImage goes on to loadImage.
WriteDone(r, i, out) ==
    /\ i \in DOMAIN tasks[r]
    /\ tasks[r][i].st = "write"
    /\ out \in WriteOutcomes(r, i)
    /\ LET font == req[r].fontFamily
           path == tempFile(font, i)
           registers == out \in {"font", "torn-parsed"}
           ts == [tasks[r] EXCEPT ![i] =
                    IF registers THEN DoneTask ELSE FailedTask]
           cache == IF loadState[r] = "fonts" THEN CacheAfter(globalFontCache, font, ts)
                    ELSE globalFontCache
           wrote == IF cache # globalFontCache THEN 1 ELSE 0
       IN /\ tasks' = [tasks EXCEPT ![r] = ts]
          /\ registered' = IF registers
                           THEN registered \cup {[family |-> font, weight |-> weightOf(i),
                                                  file |-> path]}
                           ELSE registered
          /\ globalFontCache' = cache
          /\ IF ~registers
             THEN TaskRejects(r) /\ UNCHANGED hist
             ELSE IF loadState[r] = "fonts" /\ AllFulfilled(ts)
             THEN /\ loadState' = [loadState EXCEPT ![r] = "fulfilled"]
                  /\ pc' = [pc EXCEPT ![r] = "icon"]
                  /\ hist' = [hist EXCEPT ![r].iconLoads = @ + 1,
                                          ![r].cacheWrites = @ + wrote]
                  /\ UNCHANGED responses
             ELSE /\ hist' = [hist EXCEPT ![r].cacheWrites = @ + wrote]
                  /\ UNCHANGED <<loadState, pc, responses>>
    /\ UNCHANGED <<variant, req, plan, outcome, audit>>

\* loadImage(iconUrl) settles; the drawing and canvas.toBuffer follow in the
\* same turn, then the response.
IconLoaded(r, out) ==
    /\ pc[r] = "icon"
    /\ IF out = "drawn"
       THEN /\ responses' = [responses EXCEPT ![r] = Append(@, PngResponse)]
            /\ pc' = [pc EXCEPT ![r] = "done"]
            /\ plan' = [plan EXCEPT ![r] = <<generateImagePlan(variant, req[r])>>]
       ELSE \* loadImage rejected, or drawing or encoding threw
            /\ Catch(r)
            /\ UNCHANGED plan
    /\ outcome' = [outcome EXCEPT ![r] = out]
    /\ UNCHANGED <<variant, globalFontCache, registered, req, tasks, loadState, hist, audit>>

IconOutcomes == {"drawn", "icon-failed", "encode-failed"}

Next ==
    \/ \E r \in Reqs, b \in Bodies : Receive(r, b) /\ UNCHANGED <<wrapVars, layoutVars>>
    \/ \E r \in Reqs, out \in CssOutcomes : CssResponse(r, out) /\ UNCHANGED <<wrapVars, layoutVars>>
    \/ \E r \in Reqs, i \in 0..(MaxUrls - 1), out \in FontOutcomes :
          FontResponse(r, i, out) /\ UNCHANGED <<wrapVars, layoutVars>>
    \/ \E r \in Reqs, i \in 0..(MaxUrls - 1),
          out \in {"EIO", "font", "junk", "torn-parsed", "torn-rejected"} :
          WriteDone(r, i, out) /\ UNCHANGED <<wrapVars, layoutVars>>
    \/ \E r \in Reqs, out \in IconOutcomes : IconLoaded(r, out) /\ UNCHANGED <<wrapVars, layoutVars>>


WrapIdle ==
    /\ wIn = [text |-> <<>>, maxWidth |-> 0]
    /\ wOut = [by |-> "none", lines |-> <<>>]

LayoutIdle ==
    /\ lIn = EmptyBody
    /\ lOut = [d \in {} |-> <<>>]

Init ==
    /\ variant \in Variants
    /\ audit = FALSE
    /\ ServerStart
    /\ WrapIdle
    /\ LayoutIdle

Spec == Init /\ [][Next]_vars

\* The same server, with the HTTP status of every response it receives
\* recorded in hist (the code itself never reads res.ok or res.status).
StatusInit ==
    /\ variant \in Variants
    /\ audit = TRUE
    /\ ServerStart
    /\ WrapIdle
    /\ LayoutIdle

SpecStatus == StatusInit /\ [][Next]_vars

(***************************************************************************)
(* The wrapper alone, on every short string over a small alphabet.         *)
(***************************************************************************)

\* Longest input string of the wrapper check.
MaxLen == 4

WrapAlphabet == {" ", "a", "W"}
WrapTexts == UNION { [1..k -> WrapAlphabet] : k \in 0..MaxLen }
WrapWidths == {30, 50, 90}

\* The font size the wrapper check measures at.
WrapPx == 30

WrapInit ==
    /\ wIn \in [text : WrapTexts, maxWidth : WrapWidths]
    /\ wOut = [by |-> "none", lines |-> <<>>]

\* wrapTextAndReturnLines(ctx, text, maxWidth) of the language aware copy
CallWrapTextAndReturnLines ==
    /\ wOut.by = "none"
    /\ wOut' = [by |-> "language",
                lines |-> wrapTextAndReturnLines(WrapPx, wIn.text, wIn.maxWidth)]
    /\ UNCHANGED wIn

\* wrapText(ctx, text, x, y, maxWidth, lineHeight) of the other copy: its lines
CallWrapText ==
    /\ wOut.by = "none"
    /\ wOut' = [by |-> "plain", lines |-> wrapTextPlain(WrapPx, wIn.text, wIn.maxWidth)]
    /\ UNCHANGED wIn

WrapNext ==
    \/ CallWrapTextAndReturnLines /\ UNCHANGED <<serverVars, layoutVars>>
    \/ CallWrapText /\ UNCHANGED <<serverVars, layoutVars>>

WrapSpecInit ==
    variant = "language" /\ audit = FALSE /\ ServerStart /\ LayoutIdle /\ WrapInit

SpecWrap == WrapSpecInit /\ [][WrapNext]_vars

(***************************************************************************)
(* generateImage's plan alone, for one set of arguments in every direction.*)
(***************************************************************************)

\* Most words in a banner of the layout check.
MaxWords == 5

RECURSIVE Repeat(_, _)
Repeat(w, n) == IF n <= 1 THEN w ELSE w \o <<" ">> \o Repeat(w, n - 1)

BannerTexts == { Repeat(Word(c, 9), n) : c \in {"a", "i"}, n \in 1..MaxWords }

\* textDir as it reaches generateImage: undefined, 'LTR' or 'RTL'.
Dirs == {"", "LTR", "RTL"}

LayoutInit ==
    /\ variant \in Variants
    /\ lIn \in [ titleBar : BannerTexts,
                 titleText : {SomeTitle},
                 bgColor : {GoodColor},
                 iconUrl : {"https://icon"},
                 fontFamily : Fonts,
                 textDir : {""},
                 language : {"", "Klingon", "Urdu", "Turkish", "English", "Arabic"} ]
    /\ (variant = "language") => lIn.language # ""
    /\ lOut = [d \in {} |-> <<>>]

\* generateImage(..., textDir, ...) after the font and the icon have loaded
Compose(d) ==
    /\ d \notin DOMAIN lOut
    /\ lOut' = [e \in DOMAIN lOut \cup {d} |->
                  IF e = d THEN generateImagePlan(variant, [lIn EXCEPT !.textDir = d])
                  ELSE lOut[e]]
    /\ UNCHANGED lIn

LayoutNext ==
    \E d \in Dirs : Compose(d) /\ UNCHANGED <<serverVars, wrapVars>>

LayoutSpecInit == audit = FALSE /\ ServerStart /\ WrapIdle /\ LayoutInit

SpecLayout == LayoutSpecInit /\ [][LayoutNext]_vars

(***************************************************************************)
(* Claims about the server (specification Spec).                           *)
(***************************************************************************)

StatusOf(r) == responses[r][1].status

\* C1: once a loadGoogleFont(F) has completed successfully, a later call for F
\* is served from the cache: it issues no font-description fetch and no font
\* fetch, so the two calls together issue at most one font-description fetch.
C1_CachedFamilyNotRefetched ==
    \A r \in Reqs :
        hist[r].after # {} =>
            /\ loadState[r] = "hit"
            /\ hist[r].cssFetches = 0
            /\ hist[r].fontFetches = 0
            /\ tasks[r] = NoTasks
            /\ \A q \in hist[r].after : hist[q].cssFetches + hist[r].cssFetches <= 1

\* A request that fetched and cached the family, and a later one served from
\* that entry and answered with the image.
C1_Witness ==
    \E r, q \in Reqs :
        /\ q \in hist[r].after
        /\ loadState[q] = "fulfilled"
        /\ hist[q].cssFetches = 1
        /\ pc[r] = "done"
        /\ StatusOf(r) = 200

\* C3: a loadGoogleFont that fails (fetch of the description fails, no source
\* in the stylesheet, or download, write or registration of a weight fails)
\* has written no cache entry; an entry exists only through a resolve of that
\* family that succeeded as a whole.
C3_FailedLoadCachesNothing ==
    /\ \A r \in Reqs :
          loadState[r] = "rejected" => hist[r].cacheWrites = 0
    /\ \A f \in DOMAIN globalFontCache :
          \E q \in Reqs : req[q].fontFamily = f /\ loadState[q] = "fulfilled"

\* A resolve that failed although one of its weights was downloaded, written
\* and registered, and the family is not cached.
C3_Witness ==
    \E r \in Reqs :
        /\ loadState[r] = "rejected"
        /\ \E i, j \in DOMAIN tasks[r] : tasks[r][i].st = "done" /\ tasks[r][j].st = "failed"
        /\ req[r].fontFamily \notin DOMAIN globalFontCache

\* C4 (specification SpecStatus): on a cache miss, a non-success HTTP status
\* of the font-description response or of a font response makes the resolve
\* fail: nothing of that response is written to a font file, nothing is cached,
\* the render answers 500.
C4_NonSuccessStatusFails ==
    \A r \in Reqs :
        hist[r].nonOk =>
            /\ loadState[r] = "rejected"
            /\ ~hist[r].wroteNonOk
            /\ hist[r].cacheWrites = 0
            /\ responses[r] # <<>> /\ StatusOf(r) = 500

\* C5: a failure of font resolution or of the icon load is answered with the
\* 500 rendering failure and nothing else; 200 image/png is sent only after
\* font resolution, icon load and drawing all succeeded; a body that fails
\* validation is answered with 400; no request gets more than one response.
C5_FailureAborts ==
    \A r \in Reqs :
        /\ Len(responses[r]) <= 1
        /\ (pc[r] = "done") <=> (Len(responses[r]) = 1)
        /\ (loadState[r] = "rejected" \/ outcome[r] \in {"icon-failed", "encode-failed"}) =>
              /\ Len(responses[r]) = 1
              /\ StatusOf(r) = 500
              /\ responses[r][1].type = "application/json"
              /\ plan[r] = <<>>
        /\ (responses[r] # <<>> /\ responses[r][1].type = "image/png") =>
              /\ StatusOf(r) = 200
              /\ loadState[r] \in {"fulfilled", "hit"}
              /\ outcome[r] = "drawn"
              /\ plan[r] # <<>>
        /\ (responses[r] # <<>> /\ loadState[r] = "none") =>
              /\ StatusOf(r) = 400
              /\ responses[r][1].error \in {"Missing required parameters",
                                            "Invalid background color format",
                                            "Invalid text direction"}

\* One render aborted by its font resolution and one by its icon, both
\* answered 500.
C5_Witness ==
    \E r, q \in Reqs :
        /\ loadState[r] = "rejected" /\ StatusOf(r) = 500
        /\ pc[q] = "done" /\ outcome[q] = "icon-failed" /\ StatusOf(q) = 500

\* C6: a request whose bgColor is not #RRGGBB is answered 400 before any
\* rendering work: it issues no fetch, loads no icon, starts no download,
\* registers nothing and writes no cache entry.
C6_BadColorRejectedEarly ==
    \A r \in Reqs :
        (pc[r] # "idle" /\ ~IsHexColor(req[r].bgColor)) =>
            /\ pc[r] = "done"
            /\ Len(responses[r]) = 1
            /\ StatusOf(r) = 400
            /\ hist[r] = NoHist
            /\ loadState[r] = "none"
            /\ tasks[r] = NoTasks
            /\ plan[r] = <<>>

\* A request with a bgColor of seven characters that is not hex, rejected for
\* its colour.
C6_Witness ==
    \E r \in Reqs :
        /\ pc[r] = "done"
        /\ Len(req[r].bgColor) = 7
        /\ ~IsHexColor(req[r].bgColor)
        /\ responses[r][1].error = "Invalid background color format"

\* C7: a request without a language, or with one that is not recognized, is
\* not rejected, and is drawn with banner max width 300 and locale en-US.
C7_LanguageOptional ==
    \A r \in Reqs :
        (/\ pc[r] # "idle"
         /\ req[r].language \notin Languages
         /\ [req[r] EXCEPT !.language = "English"] = BaseBody) =>
            /\ responses[r] # <<>> => StatusOf(r) # 400
            /\ plan[r] # <<>> =>
                  /\ plan[r][1].banner.maxWidth = 300
                  /\ plan[r][1].banner.locale = "en-US"

\* C10: every cache entry holds exactly two files, the first registered as
\* weight 400 and the second as weight 700.
C10_TwoWeightsCached ==
    \A f \in DOMAIN globalFontCache :
        /\ Len(globalFontCache[f]) = 2
        /\ [family |-> f, weight |-> 400, file |-> globalFontCache[f][1]] \in registered
        /\ [family |-> f, weight |-> 700, file |-> globalFontCache[f][2]] \in registered

\* The weights of a family registered with the canvas.
WeightsOf(font) == { g.weight : g \in { h \in registered : h.family = font } }

\* C11: in every interleaving of the requests, a render that has measured and
\* drawn its text found both weights of its family registered, and no font
\* file is registered while another resolve is still writing the same
\* temporary file.
C11_RegisteredBeforeText ==
    /\ [](\A r \in Reqs :
             plan[r] # <<>> => {400, 700} \subseteq WeightsOf(req[r].fontFamily))
    /\ [][\A g \in registered' \ registered : Writers(g.file)' = {}]_vars

(***************************************************************************)
(* Claims about the wrapper (specification SpecWrap).                      *)
(***************************************************************************)

\* s with whitespace normalized: its non-empty words, single-space separated.
IsWord(w) == w # <<>>
Normalize(s) == Join(SelectSeq(Split(s), IsWord))

\* C2: the lines returned, rejoined with single spaces, are the input with
\* whitespace normalized, and a line wider than maxWidth is a single word.
C2_WrapNormalizes ==
    wOut.by # "none" =>
        /\ Join(wOut.lines) = Normalize(wIn.text)
        /\ \A k \in 1..Len(wOut.lines) :
              measureText(WrapPx, wOut.lines[k]) > wIn.maxWidth =>
                  (wOut.lines[k] # <<>> /\ ~HasSpace(wOut.lines[k]))

(***************************************************************************)
(* Claims about the drawing plan (specification SpecLayout).               *)
(***************************************************************************)

BothDirections == {"LTR", "RTL"} \subseteq DOMAIN lOut

\* The horizontal mirror on the 1200 px canvas, and what is the same above the
\* banner.
Mirrored(l, r) ==
    /\ r.icon.x = 1200 - (l.icon.x + 180)
    /\ r.icon.x + 180 = 1200 - l.icon.x
    /\ l.icon.w = 180 /\ r.icon.w = 180
    /\ r.title.x = 1200 - l.title.x
    /\ r.banner.x = 1200 - l.banner.x
    /\ l.title.align = "left" /\ l.banner.align = "left"
    /\ r.title.align = "right" /\ r.banner.align = "right"
    /\ r.icon.y = l.icon.y /\ r.icon.h = l.icon.h
    /\ r.title.y = l.title.y
    /\ r.title.lineHeight = l.title.lineHeight
    /\ r.title.maxWidth = l.title.maxWidth

\* C8 as claimed: the RTL plan is the horizontal mirror of the LTR plan, and
\* every vertical position is the same in both directions.
C8_MirrorAllVertical ==
    BothDirections =>
        /\ Mirrored(lOut["LTR"], lOut["RTL"])
        /\ lOut["RTL"].bar.y = lOut["LTR"].bar.y
        /\ lOut["RTL"].bar.h = lOut["LTR"].bar.h
        /\ lOut["RTL"].banner.y = lOut["LTR"].banner.y
        /\ lOut["RTL"].banner.lineHeight = lOut["LTR"].banner.lineHeight

\* C8 as amended: the RTL plan is the horizontal mirror of the LTR plan; the
\* vertical positions of the icon and the headline and the headline max width
\* are the same; the banner line height is 35 (LTR) or 50 (RTL), 70 in both for
\* Noto Nastaliq Urdu, and for that family the bar and banner positions agree.
C8_MirrorHorizontal ==
    BothDirections =>
        /\ Mirrored(lOut["LTR"], lOut["RTL"])
        /\ lOut["LTR"].banner.lineHeight = (IF lIn.fontFamily = "Noto Nastaliq Urdu" THEN 70 ELSE 35)
        /\ lOut["RTL"].banner.lineHeight = (IF lIn.fontFamily = "Noto Nastaliq Urdu" THEN 70 ELSE 50)
        /\ lIn.fontFamily = "Noto Nastaliq Urdu" =>
              /\ lOut["RTL"].bar = lOut["LTR"].bar
              /\ lOut["RTL"].banner.y = lOut["LTR"].banner.y

\* Both directions drawn for a banner of three lines or more in a family other
\* than Noto Nastaliq Urdu, where the bar heights differ.
C8_Witness ==
    /\ BothDirections
    /\ lIn.fontFamily # "Noto Nastaliq Urdu"
    /\ Len(lOut["LTR"].banner.lines) >= 3
    /\ lOut["RTL"].bar.h # lOut["LTR"].bar.h

\* C9: in every render the bar height is max(lineCount * lineHeight + 40, 140),
\* so at least 140; the bar is full width and ends at the canvas bottom.
C9_BarHeightFormula ==
    \A d \in DOMAIN lOut :
        LET p == lOut[d]
            n == Len(p.banner.lines)
            byLines == n * p.banner.lineHeight + 40
        IN  /\ p.bar.h = (IF byLines > 140 THEN byLines ELSE 140)
            /\ p.bar.h >= 140
            /\ p.bar.x = 0
            /\ p.bar.w = 1200
            /\ p.bar.y + p.bar.h = 628

\* The positions in the call sequence of the banner lines and of the bar.
BannerCalls(p) == { k \in DOMAIN p.calls : p.calls[k].what = "banner" }
BarCalls(p) == { k \in DOMAIN p.calls : p.calls[k].what = "bar" }

\* C12: in the language aware copy every banner line is drawn inside the white
\* bar: line i of n >= 1 lines has its top at barTop + 20 + i * lineHeight and
\* its slot of lineHeight ends at or above barTop + barHeight - 20; the bar is
\* filled once, before every banner line, and nothing is filled after them.
C12_BannerLinesInsideBar ==
    \A d \in DOMAIN lOut :
        variant = "language" =>
            LET p == lOut[d]
                n == Len(p.banner.lines)
                lh == p.banner.lineHeight
            IN  /\ n >= 1
                /\ lh \in {35, 50, 70}
                /\ p.textBaseline = "top"
                /\ Cardinality(BannerCalls(p)) = n
                /\ Cardinality(BarCalls(p)) = 1
                /\ \A k \in BannerCalls(p) :
                      LET c == p.calls[k]
                      IN  /\ c.op = "fillText"
                          /\ c.line \in 0..(n - 1)
                          /\ c.y = p.bar.y + 20 + c.line * lh
                          /\ c.y + lh <= p.bar.y + p.bar.h - 20
                          /\ \A j \in BarCalls(p) : j < k
                          /\ \A j \in DOMAIN p.calls :
                                j > k => p.calls[j].op = "fillText"
                /\ \A j, k \in BannerCalls(p) :
                      j < k => p.calls[j].line < p.calls[k].line

\* A banner of four lines or more drawn at line height 35 in the language
\* aware copy, in a bar higher than the minimum.
C12_Witness ==
    /\ variant = "language"
    /\ \E d \in DOMAIN lOut :
          /\ Len(lOut[d].banner.lines) >= 4
          /\ lOut[d].banner.lineHeight = 35
          /\ lOut[d].bar.h > 140
          /\ Cardinality(BannerCalls(lOut[d])) >= 4

====
